---- MODULE Spec2Model ----
(***************************************************************************)
(* Model of src/client/hooks/useOptimizedData.ts: the process-wide         *)
(* DataCache (globalCache) and one useOptimizedData hook instance (the     *)
(* "fetch coordinator") bound to the key K.                                *)
(*                                                                         *)
(* Time is counted in ticks of 500 ms (1000 ms = 2 ticks), so that "less  *)
(* than one second" is distinguishable from "one second".                  *)
(*                                                                         *)
(* React semantics used by the hook and modelled here:                     *)
(*  - useState setters called in one synchronous block are batched; the    *)
(*    re-render and the passive effects it triggers follow the block, so a *)
(*    handler, the re-render and the effects form one step;                *)
(*  - fetchData is a useCallback whose dependency list holds isLoading and *)
(*    retryCount (fetchFn, key, ttl and the options are taken as stable),  *)
(*    so fetchData gets a new identity, and the effects keyed on it run    *)
(*    again, exactly when the rendered isLoading or retryCount changed;    *)
(*  - a call of fetchData reads the isLoading and retryCount of the render *)
(*    that created it (its closure), also after an await and inside the    *)
(*    retry timer, which calls the fetchData of the same closure;          *)
(*  - refs (lastFetchRef, abortControllerRef) are read and written live;   *)
(*  - state setters are no-ops once the component is unmounted.            *)
(***************************************************************************)
EXTENDS Integers, Sequences, FiniteSets, TLC

\* ------------------------------------------------------------------ bounds
MaxTime == 4          \* last clock tick explored
MaxFetches == 3       \* fetchFn invocations explored
MaxTtl == 1           \* largest ttl (ticks) passed to a direct store set
Ttl == 1              \* the ttl option given to the hook (ticks)
MaxActions == 3       \* meal actions started on the history screen
MaxTimeout == 2       \* largest timeout (s) passed to waitForConnection
MaxWaits == 2         \* waitForConnection calls explored
MaxFailures == 3      \* consecutive analysis failures explored
MaxEvents == 5        \* image events explored per component instance

\* --------------------------------------------------------------- constants
Null == -1            \* null / undefined
Values == {0, 1}      \* results of fetchFn: 0 is a falsy value, 1 a truthy one
K1 == <<1>>           \* the key of the hook instance ("user-meals")
K2 == <<1, 2>>        \* another key, which contains K1
K3 == <<2>>           \* another key, which does not contain K1
Keys == {K1, K2, K3}
NoError == "null"
ErrorMessage == "Unknown error"

Truthy(v) == v # Null /\ v # 0

RECURSIVE Pow2(_)
Pow2(n) == IF n = 0 THEN 1 ELSE 2 * Pow2(n - 1)

\* ------------------------------------------------------------- DataCache
NotWritten == [live |-> FALSE, v |-> Null, at |-> 0, ttl |-> 0]
NoEntry == [present |-> FALSE, data |-> Null, timestamp |-> 0, expiresAt |-> 0]

\* key.includes(pattern)
Includes(key, pattern) ==
  \E i \in 0..(Len(key) - Len(pattern)) : SubSeq(key, i + 1, i + Len(pattern)) = pattern

\* DataCache.set(key, data, ttl) at time t
CacheSet(c, key, v, ttl, t) ==
  [c EXCEPT ![key] = [present |-> TRUE, data |-> v, timestamp |-> t, expiresAt |-> t + ttl]]

\* Expired with the comparison off by one: expired already at the expiry time
ExpiredAtExpiry(e, t) == t >= e.expiresAt

\* the condition under which DataCache.get treats an entry as expired
Expired(e, t) == t > e.expiresAt

\* the value DataCache.get(key) returns at time t
CacheGet(c, key, t) ==
  IF ~c[key].present THEN Null
  ELSE IF Expired(c[key], t) THEN Null
  ELSE c[key].data

\* the store after DataCache.get(key) at time t (an expired entry is deleted)
CacheAfterGet(c, key, t) ==
  IF c[key].present /\ Expired(c[key], t) THEN [c EXCEPT ![key] = NoEntry] ELSE c

\* invalidate that removes only the key equal to the pattern
CacheInvalidateExact(c, pattern) ==
  IF pattern = <<>> THEN [k \in Keys |-> NoEntry]
  ELSE [k \in Keys |-> IF k = pattern THEN NoEntry ELSE c[k]]

\* DataCache.invalidate(pattern); the empty pattern stands for "" and undefined
CacheInvalidate(c, pattern) ==
  IF pattern = <<>> THEN [k \in Keys |-> NoEntry]
  ELSE [k \in Keys |-> IF Includes(k, pattern) THEN NoEntry ELSE c[k]]

\* cleanup that already removes an entry at its expiry time
CacheCleanupAtExpiry(c, t) ==
  [k \in Keys |-> IF c[k].present /\ t >= c[k].expiresAt THEN NoEntry ELSE c[k]]

\* DataCache.cleanup() at time t
CacheCleanup(c, t) ==
  [k \in Keys |-> IF c[k].present /\ t > c[k].expiresAt THEN NoEntry ELSE c[k]]

\* ------------------------------------------------------------------ state
VARIABLES
  now,                \* Date.now(), in ticks
  cache,              \* globalCache.cache: key -> entry
  written,            \* history: per key, the last direct set not yet invalidated
  phase,              \* "new" (not mounted yet), "mounted", "unmounted"
  focused,            \* navigation.isFocused() of the consumer's screen
  options,            \* the hook's options (ttl, refreshOnFocus, retryOnError, maxRetries)
  data, isLoading, error, retryCount,    \* useState values
  lastFetchRef,       \* lastFetchRef.current
  abortControllerRef, \* abortControllerRef.current: id of its request, 0 for null
  inflight,           \* fetchFn promises not yet settled, one record per fetchData call
  timers,             \* pending retry timers
  fetchCount,         \* number of fetchFn invocations so far
  lastOp,             \* history: the last operation
  lastDoneAt,         \* history: time the last fetch attempt completed, Null if none
  anySuccess,         \* history: some fetch has succeeded
  explicit,           \* history: the consumer acted after attach (focus, refresh, ...)
  history,            \* the history screen: actionLoading, the duplicate alert, API calls
  network,            \* useNetworkStatus: its state, listeners and waitForConnection calls
  camera,             \* the camera screen: retryCount, the analysis and its retry alert
  image               \* OptimizedImage: its state and the events it has handled

storeVars == <<now, cache, written>>
hookVars == <<phase, focused, options, data, isLoading, error, retryCount, lastFetchRef,
              abortControllerRef, inflight, timers, fetchCount>>
histVars == <<lastOp, lastDoneAt, anySuccess, explicit>>
compVars == <<history, network, camera, image>>
vars == <<storeVars, hookVars, histVars, compVars>>

DefaultMaxRetries == 3   \* maxRetries = 3
RateLimit == 2           \* now - lastFetchRef.current < 1000 (ms), in ticks
BackoffUnit == 2         \* Math.pow(2, retryCount) * 1000 (ms), in ticks
StartTime == RateLimit   \* Date.now() at start: at least 1000 ms after the epoch 0

\* the part of the state the hook's functions read and write, as one record
Cur ==
  [data |-> data, isLoading |-> isLoading, error |-> error, retryCount |-> retryCount,
   lastFetchRef |-> lastFetchRef, abortControllerRef |-> abortControllerRef,
   inflight |-> inflight, timers |-> timers, fetchCount |-> fetchCount, cache |-> cache]

\* the closure of the current render: the isLoading and retryCount fetchData captured
Closure(s) == [isLoading |-> s.isLoading, retryCount |-> s.retryCount]

Commit(s) ==
  /\ data' = s.data
  /\ isLoading' = s.isLoading
  /\ error' = s.error
  /\ retryCount' = s.retryCount
  /\ lastFetchRef' = s.lastFetchRef
  /\ abortControllerRef' = s.abortControllerRef
  /\ inflight' = s.inflight
  /\ timers' = s.timers
  /\ fetchCount' = s.fetchCount
  /\ cache' = s.cache

\* a useState setter: ignored once the component is unmounted
SetState(s, alive, field, v) == IF alive THEN [s EXCEPT ![field] = v] ELSE s

\* abortControllerRef.current.abort(): the signal of that request is aborted
Abort(s) ==
  [s EXCEPT !.inflight =
     {IF r.id = s.abortControllerRef THEN [r EXCEPT !.aborted = TRUE] ELSE r : r \in s.inflight}]

\* fetchData from setIsLoading(true) to the call of fetchFn (lines 107-118).
\* A record of inflight holds what the pending call captured: id (its
\* AbortController), rc (the retryCount of its closure), at (its `now`), force;
\* aborted is the state of its controller's signal. superseded (a forced request
\* started while it was in flight) and detached (it was in flight at unmount)
\* are history marks that no operation reads.
StartFetch(s, cl, force, alive) ==
  LET id == s.fetchCount + 1
      s1 == SetState(SetState(s, alive, "isLoading", TRUE), alive, "error", NoError)
      s2 == IF s1.abortControllerRef # 0 THEN Abort(s1) ELSE s1
      old == {[r EXCEPT !.superseded = r.superseded \/ force] : r \in s2.inflight}
  IN [s2 EXCEPT
        !.abortControllerRef = id,
        !.fetchCount = id,
        !.inflight = old \cup {[id |-> id, rc |-> cl.retryCount, at |-> now, force |-> force,
                                aborted |-> FALSE, superseded |-> FALSE, detached |-> FALSE]}]

\* FetchData with a concurrent-request guard that ignores force
FetchDataLoadingBlocksForce(s, cl, force, alive) ==
  LET cached == CacheGet(s.cache, K1, now)
      s1 == IF force THEN s ELSE [s EXCEPT !.cache = CacheAfterGet(s.cache, K1, now)]
  IN IF ~force /\ Truthy(cached) THEN SetState(s1, alive, "data", cached)
     ELSE IF cl.isLoading THEN s1
     ELSE IF ~force /\ now - s1.lastFetchRef < RateLimit THEN s1
     ELSE StartFetch(s1, cl, force, alive)

\* FetchData with a rate limit that still suppresses at exactly the interval
FetchDataRateLimitInclusive(s, cl, force, alive) ==
  LET cached == CacheGet(s.cache, K1, now)
      s1 == IF force THEN s ELSE [s EXCEPT !.cache = CacheAfterGet(s.cache, K1, now)]
  IN IF ~force /\ Truthy(cached) THEN SetState(s1, alive, "data", cached)
     ELSE IF cl.isLoading /\ ~force THEN s1
     ELSE IF ~force /\ now - s1.lastFetchRef <= RateLimit THEN s1
     ELSE StartFetch(s1, cl, force, alive)

\* fetchData(force) of the render with closure cl, up to its await (lines 89-118)
FetchData(s, cl, force, alive) ==
  LET cached == CacheGet(s.cache, K1, now)
      s1 == IF force THEN s ELSE [s EXCEPT !.cache = CacheAfterGet(s.cache, K1, now)]
  IN IF ~force /\ Truthy(cached) THEN SetState(s1, alive, "data", cached)
     ELSE IF cl.isLoading /\ ~force THEN s1
     ELSE IF ~force /\ now - s1.lastFetchRef < RateLimit THEN s1
     ELSE StartFetch(s1, cl, force, alive)

\* the callback given to useFocusEffect (lines 162-169)
FocusCallback(s, cl, alive) ==
  IF options.refreshOnFocus
  THEN LET cached == CacheGet(s.cache, K1, now)
           s1 == [s EXCEPT !.cache = CacheAfterGet(s.cache, K1, now)]
       IN IF ~Truthy(cached) THEN FetchData(s1, cl, FALSE, alive) ELSE s1
  ELSE s

\* the effects keyed on fetchData, in source order: the initial-load effect
\* (lines 156-158), then useFocusEffect, which runs its callback when the screen
\* is focused
Effects(s, cl, foc) ==
  LET s1 == FetchData(s, cl, FALSE, TRUE)
  IN IF foc THEN FocusCallback(s1, cl, TRUE) ELSE s1

\* re-render after a handler that ran under closure cl: when isLoading or
\* retryCount changed, fetchData is a new function and the effects run again
RECURSIVE Settle(_, _, _, _)
Settle(s, cl, foc, alive) ==
  IF alive /\ Closure(s) # cl
  THEN Settle(Effects(s, Closure(s), foc), Closure(s), foc, alive)
  ELSE s

\* a success path that drops the result when the store holds no entry for the key
OnSuccessUnlessAbsent(s, r, v, alive) ==
  IF s.cache[K1].present
  THEN LET s1 == SetState(s, alive, "data", v)
           s2 == [s1 EXCEPT !.cache = CacheSet(s1.cache, K1, v, options.ttl, now),
                            !.lastFetchRef = r.at]
           s3 == SetState(s2, alive, "retryCount", 0)
       IN [SetState(s3, alive, "isLoading", FALSE) EXCEPT !.abortControllerRef = 0]
  ELSE [SetState(s, alive, "isLoading", FALSE) EXCEPT !.abortControllerRef = 0]

\* fetchData after a successful await (lines 120-125) and its finally (138-139)
OnSuccess(s, r, v, alive) ==
  LET s1 == SetState(s, alive, "data", v)
      s2 == [s1 EXCEPT !.cache = CacheSet(s1.cache, K1, v, options.ttl, now),
                       !.lastFetchRef = r.at]
      s3 == SetState(s2, alive, "retryCount", 0)
  IN [SetState(s3, alive, "isLoading", FALSE) EXCEPT !.abortControllerRef = 0]

\* the delay of the retry timer, Math.pow(2, retryCount) * 1000 ms, in ticks
RetryDelay(rc) == Pow2(rc) * BackoffUnit

\* the condition under which the catch block schedules a retry (line 130)
MayRetry(rc) == options.retryOnError /\ rc < options.maxRetries

\* fetchData after a rejected await (lines 126-136) and its finally (138-139)
OnFailure(s, r, alive) ==
  LET s1 == SetState(s, alive, "error", ErrorMessage)
      s2 == IF MayRetry(r.rc)
            THEN [SetState(s1, alive, "retryCount", s1.retryCount + 1) EXCEPT
                    !.timers = @ \cup {[id |-> r.id, due |-> now + RetryDelay(r.rc),
                                        rc |-> r.rc]}]
            ELSE s1
  IN [SetState(s2, alive, "isLoading", FALSE) EXCEPT !.abortControllerRef = 0]

\* ---------------------------------------------------------------- actions
\* the defaults of lines 73-78 (with the configured ttl) and three variations
DefaultOptions ==
  [ttl |-> Ttl, refreshOnFocus |-> TRUE, retryOnError |-> TRUE,
   maxRetries |-> DefaultMaxRetries]

OptionSets ==
  {DefaultOptions,
   [DefaultOptions EXCEPT !.maxRetries = 1],
   [DefaultOptions EXCEPT !.retryOnError = FALSE],
   [DefaultOptions EXCEPT !.refreshOnFocus = FALSE]}

\* the history screen after its first render: no action, no alert (line 78)
HistoryInit == [actionLoading |-> "null", alert |-> FALSE, calls |-> {}, started |-> 0]

\* useNetworkStatus before its effect has run on platform p (lines 202-209);
\* online is the connectivity of the device
NetworkInit(p, o) ==
  [platform |-> p, online |-> o, mounted |-> "new", setup |-> "idle",
   isConnected |-> TRUE, isOnline |-> TRUE,
   webListeners |-> FALSE, subscribed |-> FALSE, unsubscribe |-> FALSE,
   waits |-> {}, resolved |-> {}, calls |-> 0]

\* the camera screen after its first render (line 77)
CameraInit ==
  [retryCount |-> 0, capturedImage |-> Null, showCamera |-> FALSE,
   showAnalysis |-> FALSE, analyzing |-> {}, alert |-> {},
   failures |-> 0, outcome |-> "none"]

\* OptimizedImage after its first render with fallbackSource f (lines 38-41)
ImageInit(f) ==
  [fallbackSource |-> f, currentSource |-> "source", isLoading |-> TRUE,
   hasError |-> FALSE, retryCount |-> 0, switches |-> 0, onErrorCalls |-> 0,
   events |-> 0]

\* a component that is not rendered
Absent == "absent"

\* none of the components other than the data hook is rendered
CompInit ==
  /\ history = Absent
  /\ network = Absent
  /\ camera = Absent
  /\ image = Absent

\* the data hook and the store before the consumer mounts
HookInit(optionSet) ==
  /\ now = StartTime
  /\ cache = [k \in Keys |-> NoEntry]
  /\ written = [k \in Keys |-> NotWritten]
  /\ phase = "new"
  /\ focused \in BOOLEAN
  /\ options \in optionSet
  /\ data = Null
  /\ isLoading = FALSE
  /\ error = NoError
  /\ retryCount = 0
  /\ lastFetchRef = 0
  /\ abortControllerRef = 0
  /\ inflight = {}
  /\ timers = {}
  /\ fetchCount = 0
  /\ lastOp = "init"
  /\ lastDoneAt = Null
  /\ anySuccess = FALSE
  /\ explicit = FALSE

InitWith(optionSet) == HookInit(optionSet) /\ CompInit

\* a step of the hook that ends in state s
Step(s, op) ==
  /\ s.fetchCount <= MaxFetches
  /\ Commit(s)
  /\ lastOp' = op
  /\ UNCHANGED <<now, written, options>>

\* the consumer mounts: first render, then the effects of that render
Mount ==
  /\ phase = "new"
  /\ phase' = "mounted"
  /\ LET s1 == Effects(Cur, Closure(Cur), focused)
     IN Step(Settle(s1, Closure(Cur), focused, TRUE), "mount")
  /\ UNCHANGED <<focused, lastDoneAt, anySuccess, explicit>>
  /\ UNCHANGED compVars

\* the screen regains focus: useFocusEffect runs the callback of the current render
Focus ==
  /\ phase = "mounted" /\ ~focused
  /\ focused' = TRUE
  /\ LET s1 == FocusCallback(Cur, Closure(Cur), TRUE)
     IN Step(Settle(s1, Closure(Cur), TRUE, TRUE), "focus")
  /\ explicit' = TRUE
  /\ UNCHANGED <<phase, lastDoneAt, anySuccess>>
  /\ UNCHANGED compVars

Blur ==
  /\ phase = "mounted" /\ focused
  /\ focused' = FALSE
  /\ lastOp' = "blur"
  /\ UNCHANGED <<storeVars, phase, options, data, isLoading, error, retryCount,
                 lastFetchRef, abortControllerRef, inflight, timers, fetchCount,
                 lastDoneAt, anySuccess, explicit>>
  /\ UNCHANGED compVars

\* refresh() of the current render (lines 145-148)
Refresh ==
  /\ phase = "mounted"
  /\ LET s1 == [Cur EXCEPT !.cache = CacheInvalidate(cache, K1)]
         s2 == FetchData(s1, Closure(Cur), TRUE, TRUE)
     IN Step(Settle(s2, Closure(Cur), focused, TRUE), "refresh")
  /\ explicit' = TRUE
  /\ UNCHANGED <<phase, focused, lastDoneAt, anySuccess>>
  /\ UNCHANGED compVars

\* invalidate() of the current render (lines 150-153)
Invalidate ==
  /\ phase = "mounted"
  /\ LET s1 == [Cur EXCEPT !.cache = CacheInvalidate(cache, K1)]
         s2 == SetState(s1, TRUE, "data", Null)
     IN Step(Settle(s2, Closure(Cur), focused, TRUE), "invalidate")
  /\ explicit' = TRUE
  /\ UNCHANGED <<phase, focused, lastDoneAt, anySuccess>>
  /\ UNCHANGED compVars

\* the promise of request r resolves with v
FetchResolves(r, v) ==
  /\ r \in inflight
  /\ LET alive == phase = "mounted"
         s0 == [Cur EXCEPT !.inflight = @ \ {r}]
         s1 == OnSuccess(s0, r, v, alive)
     IN Step(Settle(s1, Closure(Cur), focused, alive), "resolve")
  /\ lastDoneAt' = now
  /\ anySuccess' = TRUE
  /\ UNCHANGED <<phase, focused, explicit>>
  /\ UNCHANGED compVars

\* the promise of request r rejects
FetchRejects(r) ==
  /\ r \in inflight
  /\ LET alive == phase = "mounted"
         s0 == [Cur EXCEPT !.inflight = @ \ {r}]
         s1 == OnFailure(s0, r, alive)
     IN Step(Settle(s1, Closure(Cur), focused, alive), "reject")
  /\ lastDoneAt' = now
  /\ UNCHANGED <<phase, focused, anySuccess, explicit>>
  /\ UNCHANGED compVars

\* a retry timer fires: fetchData(true) of the closure that set it (line 133)
RetryTimer(t) ==
  /\ t \in timers
  /\ t.due <= now
  /\ LET alive == phase = "mounted"
         s0 == [Cur EXCEPT !.timers = @ \ {t}]
         s1 == FetchData(s0, [isLoading |-> FALSE, retryCount |-> t.rc], TRUE, alive)
     IN Step(Settle(s1, Closure(Cur), focused, alive), "timer")
  /\ UNCHANGED <<phase, focused, lastDoneAt, anySuccess, explicit>>
  /\ UNCHANGED compVars

\* the consumer unmounts: the cleanup of lines 173-179
Unmount ==
  /\ phase = "mounted"
  /\ phase' = "unmounted"
  /\ LET s1 == IF abortControllerRef # 0 THEN Abort(Cur) ELSE Cur
         s2 == [s1 EXCEPT !.inflight = {[r EXCEPT !.detached = TRUE] : r \in s1.inflight}]
     IN Step(s2, "unmount")
  /\ explicit' = TRUE
  /\ UNCHANGED <<focused, lastDoneAt, anySuccess>>
  /\ UNCHANGED compVars

\* setInterval(() => globalCache.cleanup(), ...) (line 61)
Cleanup ==
  /\ cache' = CacheCleanup(cache, now)
  /\ cache' # cache
  /\ lastOp' = "cleanup"
  /\ UNCHANGED <<now, written, hookVars, lastDoneAt, anySuccess, explicit>>
  /\ UNCHANGED compVars

Tick ==
  /\ now < MaxTime
  /\ now' = now + 1
  /\ lastOp' = "tick"
  /\ UNCHANGED <<cache, written, hookVars, lastDoneAt, anySuccess, explicit>>
  /\ UNCHANGED compVars

Next ==
  \/ Mount
  \/ Focus
  \/ Blur
  \/ Refresh
  \/ Invalidate
  \/ \E r \in inflight, v \in Values : FetchResolves(r, v)
  \/ \E r \in inflight : FetchRejects(r)
  \/ \E t \in timers : RetryTimer(t)
  \/ Unmount
  \/ Cleanup
  \/ Tick

\* ------------------------------------------------- the store used directly
\* globalCache is exported: any module may call set, get and invalidate on it
Patterns == {<<>>, <<1>>, <<2>>, <<1, 2>>}

\* the least ttl a caller passes to set: an expiry already in the past
MinTtl == -1

\* the ttl arguments of direct sets: in the past, zero, and the largest
TtlInputs == {MinTtl, 0, MaxTtl}

StoreSet(k, v, ttl) ==
  /\ cache' = CacheSet(cache, k, v, ttl, now)
  /\ written' = [written EXCEPT ![k] = [live |-> TRUE, v |-> v, at |-> now, ttl |-> ttl]]
  /\ lastOp' = "set"
  /\ UNCHANGED <<now, hookVars, lastDoneAt, anySuccess, explicit>>
  /\ UNCHANGED compVars

StoreGet(k) ==
  /\ cache' = CacheAfterGet(cache, k, now)
  /\ cache' # cache
  /\ lastOp' = "get"
  /\ UNCHANGED <<now, written, hookVars, lastDoneAt, anySuccess, explicit>>
  /\ UNCHANGED compVars

StoreInvalidate(p) ==
  /\ cache' = CacheInvalidate(cache, p)
  /\ written' = [k \in Keys |-> IF p = <<>> \/ Includes(k, p) THEN NotWritten ELSE written[k]]
  /\ lastOp' = "globalCache.invalidate"
  /\ UNCHANGED <<now, hookVars, lastDoneAt, anySuccess, explicit>>
  /\ UNCHANGED compVars

NextCache ==
  \/ \E k \in Keys, v \in Values, ttl \in TtlInputs : StoreSet(k, v, ttl)
  \/ \E k \in Keys : StoreGet(k)
  \/ \E p \in Patterns : StoreInvalidate(p)
  \/ Cleanup
  \/ Tick

\* the hook under every option set
Init == InitWith(OptionSets)
Spec == Init /\ [][Next]_vars

\* the hook under its default options
InitDefault == InitWith({DefaultOptions})
SpecDefault == InitDefault /\ [][Next]_vars

\* the hook with neither retries nor focus refresh (so no timer is ever armed),
\* on a screen that never gains focus, while other code invalidates the store
PlainOptions == [DefaultOptions EXCEPT !.retryOnError = FALSE, !.refreshOnFocus = FALSE]

NextInvalidation ==
  \/ Mount
  \/ Refresh
  \/ Invalidate
  \/ \E r \in inflight, v \in Values : FetchResolves(r, v)
  \/ \E r \in inflight : FetchRejects(r)
  \/ Unmount
  \/ Cleanup
  \/ Tick
  \/ \E p \in Patterns : StoreInvalidate(p)

InitPlain == InitWith({PlainOptions}) /\ ~focused
SpecInvalidation == InitPlain /\ [][NextInvalidation]_vars

\* the same, while other code also stores entries under the other keys
NextShared ==
  \/ NextInvalidation
  \/ \E k \in Keys \ {K1} : StoreSet(k, 1, MaxTtl)

SpecShared == InitPlain /\ [][NextShared]_vars

\* the hook with ttl = 0 and without retries: an entry expires at the first
\* clock reading after its write
ShortTtlOptions == [DefaultOptions EXCEPT !.ttl = 0, !.retryOnError = FALSE]

NextShortTtl ==
  \/ Mount
  \/ Focus
  \/ Blur
  \/ Refresh
  \/ Invalidate
  \/ \E r \in inflight, v \in Values : FetchResolves(r, v)
  \/ \E r \in inflight : FetchRejects(r)
  \/ Unmount
  \/ Cleanup
  \/ Tick

InitShortTtl == InitWith({ShortTtlOptions})
SpecShortTtl == InitShortTtl /\ [][NextShortTtl]_vars

\* the store alone, used directly, the hook never mounted
InitCache == InitDefault /\ ~focused
SpecCache == InitCache /\ [][NextCache]_vars

\* ------------------------------------------------------ the history screen
\* Everything but lastOp of the data hook and the store
hookState == <<storeVars, hookVars, lastDoneAt, anySuccess, explicit>>

\* the meal actions of the history screen (part_001, lines 233-336)
ActionKinds == {"favorite", "duplicate", "update", "feedback"}

\* setActionLoading(tag) followed by the await of the action's API call
StartAction(kind) ==
  [history EXCEPT !.actionLoading = kind,
                  !.started = @ + 1,
                  !.calls = @ \cup {[id |-> history.started + 1, kind |-> kind]}]

\* handleToggleFavorite, handleUpdateMeal, handleSaveFeedback up to their await:
\* they return at once when actionLoading is set
PressAction(kind) ==
  /\ kind # "duplicate"
  /\ history.actionLoading = "null"
  /\ history.started < MaxActions
  /\ history' = StartAction(kind)
  /\ lastOp' = "press"
  /\ UNCHANGED <<hookState, network, camera, image>>

\* handleDuplicateMeal: returns at once when actionLoading is set, else shows
\* the confirmation alert
PressDuplicate ==
  /\ history.actionLoading = "null"
  /\ ~history.alert
  /\ history' = [history EXCEPT !.alert = TRUE]
  /\ lastOp' = "alert"
  /\ UNCHANGED <<hookState, network, camera, image>>

\* the cancel button of the alert
AlertCancel ==
  /\ history.alert
  /\ history' = [history EXCEPT !.alert = FALSE]
  /\ lastOp' = "cancel"
  /\ UNCHANGED <<hookState, network, camera, image>>

\* the onPress of the alert's confirm button (lines 268-280): no test of
\* actionLoading
AlertConfirm ==
  /\ history.alert
  /\ history.started < MaxActions
  /\ history' = [StartAction("duplicate") EXCEPT !.alert = FALSE]
  /\ lastOp' = "confirm"
  /\ UNCHANGED <<hookState, network, camera, image>>

\* the API call of action c settles, resolved or rejected: the handler ends
\* through `finally`, setActionLoading(null)
ActionSettles(c) ==
  /\ c \in history.calls
  /\ history' = [history EXCEPT !.calls = @ \ {c}, !.actionLoading = "null"]
  /\ lastOp' = "settle"
  /\ UNCHANGED <<hookState, network, camera, image>>

NextHistory ==
  \/ \E kind \in ActionKinds : PressAction(kind)
  \/ PressDuplicate
  \/ AlertCancel
  \/ AlertConfirm
  \/ \E c \in history.calls : ActionSettles(c)

\* the data hook unused: only one other component is rendered
HookIdle == HookInit({DefaultOptions}) /\ ~focused

InitHistory ==
  /\ HookIdle
  /\ history = HistoryInit
  /\ network = Absent /\ camera = Absent /\ image = Absent

SpecHistory == InitHistory /\ [][NextHistory]_vars

\* ------------------------------------------------------ useNetworkStatus
Platforms == {"web", "native"}

\* a useState setter of useNetworkStatus: ignored once the hook is unmounted
NetSetState(n, connected) ==
  IF n.mounted = "mounted"
  THEN [n EXCEPT !.isConnected = connected, !.isOnline = connected]
  ELSE n

\* the effect of the mount (lines 210-277). On web setupNetworkListener runs to
\* its end at once: it registers both window listeners and applies
\* navigator.onLine; the cleanup function it returns is dropped with its
\* promise. On native it stops at `await import(...)`.
NetMount ==
  /\ network.mounted = "new"
  /\ LET n == [network EXCEPT !.mounted = "mounted"]
     IN network' =
          IF n.platform = "web"
          THEN [NetSetState(n, n.online) EXCEPT !.webListeners = TRUE, !.setup = "done"]
          ELSE [n EXCEPT !.setup = "importing"]
  /\ lastOp' = "netmount"
  /\ UNCHANGED <<hookState, history, camera, image>>

\* `await import("@react-native-community/netinfo")` resolves (line 242)
ImportResolves ==
  /\ network.setup = "importing"
  /\ network' = [network EXCEPT !.setup = "fetching"]
  /\ lastOp' = "import"
  /\ UNCHANGED <<hookState, history, camera, image>>

\* `await NetInfo.default.fetch()` resolves (lines 245-260): the state is
\* applied and the listener is registered, mounted or not
FetchStateResolves ==
  /\ network.setup = "fetching"
  /\ network' = [NetSetState(network, network.online) EXCEPT
                   !.subscribed = TRUE, !.unsubscribe = TRUE, !.setup = "done"]
  /\ lastOp' = "subscribe"
  /\ UNCHANGED <<hookState, history, camera, image>>

\* the import or the fetch rejects: the catch block assumes a connection
\* (lines 261-270)
SetupFails ==
  /\ network.setup \in {"importing", "fetching"}
  /\ network' = [NetSetState(network, TRUE) EXCEPT !.setup = "failed"]
  /\ lastOp' = "setupfails"
  /\ UNCHANGED <<hookState, history, camera, image>>

\* the connectivity of the device changes; a registered listener (lines 217-225,
\* 254-260) applies the new state
ConnectivityChanges ==
  /\ network.mounted # "new"
  /\ LET n == [network EXCEPT !.online = ~@]
     IN network' = IF n.webListeners \/ n.subscribed THEN NetSetState(n, n.online) ELSE n
  /\ lastOp' = "connectivity"
  /\ UNCHANGED <<hookState, history, camera, image>>

\* the cleanup of the effect (lines 274-276): unsubscribe?.()
NetUnmount ==
  /\ network.mounted = "mounted"
  /\ network' = [network EXCEPT
                   !.mounted = "unmounted",
                   !.subscribed = IF network.unsubscribe THEN FALSE ELSE @]
  /\ lastOp' = "netunmount"
  /\ UNCHANGED <<hookState, history, camera, image>>

\* waitForConnection(timeout) of the current render (lines 294-312): resolves
\* at once when the rendered networkState.isConnected is true, else starts an
\* interval whose callback keeps that rendered value
WaitForConnection(timeout) ==
  /\ network.mounted = "mounted"
  /\ network.calls < MaxWaits
  /\ LET id == network.calls + 1
     IN network' =
          IF network.isConnected
          THEN [network EXCEPT !.calls = id,
                               !.resolved = @ \cup {[id |-> id, result |-> TRUE, polls |-> 0]}]
          ELSE [network EXCEPT !.calls = id,
                               !.waits = @ \cup {[id |-> id, isConnected |-> FALSE,
                                                  polls |-> 0, timeout |-> timeout]}]
  /\ lastOp' = "wait"
  /\ UNCHANGED <<hookState, history, camera, image>>

\* the interval callback of call w fires, one second after the previous one
\* (lines 302-310)
Poll(w) ==
  /\ w \in network.waits
  /\ LET k == w.polls + 1
     IN network' =
          IF w.isConnected
          THEN [network EXCEPT !.waits = @ \ {w},
                  !.resolved = @ \cup {[id |-> w.id, result |-> TRUE, polls |-> k]}]
          ELSE IF k > w.timeout
          THEN [network EXCEPT !.waits = @ \ {w},
                  !.resolved = @ \cup {[id |-> w.id, result |-> FALSE, polls |-> k]}]
          ELSE [network EXCEPT !.waits = (@ \ {w}) \cup {[w EXCEPT !.polls = k]}]
  /\ lastOp' = "poll"
  /\ UNCHANGED <<hookState, history, camera, image>>

NextNetwork ==
  \/ NetMount
  \/ ImportResolves
  \/ FetchStateResolves
  \/ SetupFails
  \/ ConnectivityChanges
  \/ NetUnmount
  \/ \E timeout \in 1..MaxTimeout : WaitForConnection(timeout)
  \/ \E w \in network.waits : Poll(w)

InitNetwork ==
  /\ HookIdle
  /\ network \in {NetworkInit(p, o) : p \in Platforms, o \in BOOLEAN}
  /\ history = Absent /\ camera = Absent /\ image = Absent

SpecNetwork == InitNetwork /\ [][NextNetwork]_vars

\* ------------------------------------------------------ the camera screen
Images == {1, 2}

RetryPrompts == 2   \* if (retryCount < 2)

\* analyzeImage(imageUri) of a render whose retryCount was rc, up to its first
\* await (lines 143-148): setRetryCount(0)
StartAnalysis(c, rc, uri) ==
  [c EXCEPT !.retryCount = 0, !.analyzing = {[rc |-> rc, uri |-> uri]}]

\* takePicture / pickImage (lines 96-141). Both are memoized on [handleError],
\* so they call the analyzeImage of the first render, whose retryCount is 0.
Capture(entry, uri) ==
  /\ camera.analyzing = {} /\ camera.alert = {}
  /\ camera' = [StartAnalysis(camera, CameraInit.retryCount, uri) EXCEPT
                  !.capturedImage = uri, !.failures = 0, !.outcome = entry,
                  !.showCamera = IF entry = "takePicture" THEN FALSE ELSE @]
  /\ lastOp' = "capture"
  /\ UNCHANGED <<hookState, history, network, image>>

\* takePicture needs the camera view (cameraRef.current, line 97)
TakePicture(uri) == camera.showCamera /\ Capture("takePicture", uri)

PickImage(uri) == Capture("pickImage", uri)

\* the buttons that open and close the camera view (lines 580 and 490)
ShowCamera(open) ==
  /\ camera.alert = {}
  /\ camera.showCamera # open
  /\ camera' = [camera EXCEPT !.showCamera = open]
  /\ lastOp' = "showcamera"
  /\ UNCHANGED <<hookState, history, network, image>>

\* handleRetakePhoto (lines 216-221)
Retake ==
  /\ camera.showAnalysis /\ camera.analyzing = {} /\ camera.alert = {}
  /\ camera' = [camera EXCEPT !.capturedImage = Null, !.showAnalysis = FALSE,
                              !.showCamera = TRUE, !.failures = 0]
  /\ lastOp' = "retake"
  /\ UNCHANGED <<hookState, history, network, image>>

\* the retry button of the error banner (part_000 lines 606-616): analyzeImage
\* of the current render
BannerRetry ==
  /\ camera.analyzing = {} /\ camera.alert = {}
  /\ camera.capturedImage # Null /\ camera.failures > 0
  /\ camera' = StartAnalysis(camera, camera.retryCount, camera.capturedImage)
  /\ lastOp' = "banner"
  /\ UNCHANGED <<hookState, history, network, image>>

\* the retry button of the alert (line 169): the analyzeImage that showed the
\* alert, with the retryCount it captured
AlertRetry(a) ==
  /\ a \in camera.alert
  /\ camera' = [StartAnalysis(camera, a.rc, a.uri) EXCEPT !.alert = {}]
  /\ lastOp' = "alertretry"
  /\ UNCHANGED <<hookState, history, network, image>>

\* the cancel button of the alert (line 168)
AlertDismiss ==
  /\ camera.alert # {}
  /\ camera' = [camera EXCEPT !.alert = {}]
  /\ lastOp' = "dismiss"
  /\ UNCHANGED <<hookState, history, network, image>>

\* the analysis resolves (lines 156-157)
AnalysisSucceeds(a) ==
  /\ a \in camera.analyzing
  /\ camera' = [camera EXCEPT !.analyzing = {}, !.failures = 0, !.showAnalysis = TRUE,
                              !.outcome = "analysis"]
  /\ lastOp' = "analysed"
  /\ UNCHANGED <<hookState, history, network, image>>

\* the analysis rejects (lines 158-174): setRetryCount(prev => prev + 1), then
\* the captured retryCount decides between the retry alert and handleError
AnalysisFails(a) ==
  /\ a \in camera.analyzing
  /\ camera.failures < MaxFailures
  /\ camera' = [camera EXCEPT
                  !.analyzing = {},
                  !.retryCount = @ + 1,
                  !.failures = @ + 1,
                  !.alert = IF a.rc < RetryPrompts THEN {a} ELSE {},
                  !.outcome = IF a.rc < RetryPrompts THEN "alert" ELSE "handleError"]
  /\ lastOp' = "analysisfails"
  /\ UNCHANGED <<hookState, history, network, image>>

NextCamera ==
  \/ \E uri \in Images : TakePicture(uri)
  \/ \E uri \in Images : PickImage(uri)
  \/ \E open \in BOOLEAN : ShowCamera(open)
  \/ Retake
  \/ BannerRetry
  \/ \E a \in camera.alert : AlertRetry(a)
  \/ AlertDismiss
  \/ \E a \in camera.analyzing : AnalysisSucceeds(a)
  \/ \E a \in camera.analyzing : AnalysisFails(a)

InitCamera ==
  /\ HookIdle
  /\ camera = CameraInit
  /\ history = Absent /\ network = Absent /\ image = Absent

SpecCamera == InitCamera /\ [][NextCamera]_vars

\* ------------------------------------------------------- OptimizedImage
\* the fallbackSource prop: missing, the same object as source, or another one
FallbackSources == {"none", "source", "fallback"}

\* handleError (part_002 lines 55-70) without the retryCount test
SwitchIgnoringRetryCount(i) ==
  i.fallbackSource # "none" /\ i.currentSource # i.fallbackSource

\* the test of line 61
SwitchToFallback(i) ==
  i.fallbackSource # "none" /\ i.currentSource # i.fallbackSource /\ i.retryCount = 0

\* handleLoadStart (lines 43-47)
HandleLoadStart ==
  /\ image.events < MaxEvents
  /\ image' = [image EXCEPT !.isLoading = TRUE, !.hasError = FALSE, !.events = @ + 1]
  /\ lastOp' = "image.loadstart"
  /\ UNCHANGED <<hookState, history, network, camera>>

\* handleLoad (lines 49-53)
HandleLoad ==
  /\ image.events < MaxEvents
  /\ image' = [image EXCEPT !.isLoading = FALSE, !.hasError = FALSE, !.events = @ + 1]
  /\ lastOp' = "image.load"
  /\ UNCHANGED <<hookState, history, network, camera>>

\* handleError (lines 55-70)
HandleError ==
  /\ image.events < MaxEvents
  /\ image' = IF SwitchToFallback(image)
              THEN [image EXCEPT !.currentSource = image.fallbackSource,
                                 !.retryCount = 1,
                                 !.hasError = FALSE,
                                 !.isLoading = TRUE,
                                 !.switches = @ + 1,
                                 !.events = @ + 1]
              ELSE [image EXCEPT !.isLoading = FALSE,
                                 !.hasError = TRUE,
                                 !.onErrorCalls = @ + 1,
                                 !.events = @ + 1]
  /\ lastOp' = "image.error"
  /\ UNCHANGED <<hookState, history, network, camera>>

\* handleRetry (lines 72-77)
HandleRetry ==
  /\ image.events < MaxEvents
  /\ image' = [image EXCEPT !.retryCount = @ + 1,
                            !.hasError = FALSE,
                            !.isLoading = TRUE,
                            !.currentSource = "source",
                            !.events = @ + 1]
  /\ lastOp' = "image.retry"
  /\ UNCHANGED <<hookState, history, network, camera>>

NextImage ==
  \/ HandleLoadStart
  \/ HandleLoad
  \/ HandleError
  \/ HandleRetry

InitImage ==
  /\ HookIdle
  /\ image \in {ImageInit(f) : f \in FallbackSources}
  /\ history = Absent /\ network = Absent /\ camera = Absent

SpecImage == InitImage /\ [][NextImage]_vars

\* ------------------------------------------------------------------ claims
\* request r is in flight before the step and settled by it
Settles(r) == r \in inflight /\ \A q \in inflight' : q.id # r.id

\* the step invokes fetchFn for a request made with forceRefresh = false
StartsUnforced == \E q \in inflight' : q.id > fetchCount /\ ~q.force

\* C1: two request(forceRefresh=false) calls issued before the first one's fetch
\* has resolved cause one invocation of fetchFn: never are two fetches that were
\* started by non-forced requests in flight together.
C1_Dedup == Cardinality({r \in inflight : ~r.force}) <= 1

\* C2: when a request that was superseded by a later request(forceRefresh=true)
\* settles, data, error, isLoading and retryCount stay as they are and the cache
\* entry of the key is not overwritten.
C2_Supersession ==
  [][\A r \in inflight :
       (r.superseded /\ Settles(r)) =>
         (UNCHANGED <<data, error, isLoading, retryCount>> /\ cache'[K1] = cache[K1])]_vars

\* C3: with retryOnError, maxRetries = 3 and a fetch that always fails, an attached
\* coordinator the consumer leaves alone invokes fetchFn one call at a time, at
\* most 4 times, and the k-th retry starts 2^(k-1) seconds after the failure of
\* the attempt before it, all earlier attempts having failed by then.
C3_Backoff ==
  [][(/\ options.retryOnError /\ options.maxRetries = DefaultMaxRetries
      /\ ~anySuccess' /\ ~explicit'
      /\ fetchCount' > fetchCount)
     => /\ fetchCount' = fetchCount + 1
        /\ fetchCount' <= DefaultMaxRetries + 1
        /\ fetchCount >= 1 =>
             /\ Cardinality(inflight') = 1
             /\ lastDoneAt' # Null
             /\ now - lastDoneAt' = RetryDelay(fetchCount - 1)]_vars

\* C4: in every reachable state 0 <= retryCount <= maxRetries.
C4_RetryCountInRange == 0 <= retryCount /\ retryCount <= options.maxRetries

\* C6: at any time at most one in-flight request of the coordinator has a token
\* that was not cancelled.
C6_OneActiveToken == Cardinality({r \in inflight : ~r.aborted}) <= 1

\* C7: a non-forced request made less than 1 second after the last fetch attempt
\* completed (by success or by failure) does not invoke fetchFn.
C7_RateLimit ==
  [][StartsUnforced => ~(lastDoneAt' # Null /\ now - lastDoneAt' < RateLimit)]_vars

\* C8: when a request that was in flight at unmount settles, neither the
\* coordinator's state nor the cache store changes.
C8_DetachCancels ==
  [][\A r \in inflight :
       (r.detached /\ Settles(r)) =>
         (UNCHANGED <<data, error, isLoading, retryCount>> /\ cache' = cache)]_vars

\* C9: a non-forced request made while the store holds an unexpired entry for the
\* key, whatever value it holds, does not invoke fetchFn.
C9_CacheHit ==
  [][StartsUnforced => (~cache'[K1].present \/ now > cache'[K1].expiresAt)]_vars

C10_InvalidateThenRefresh ==
  [][/\ (Invalidate \/ Refresh) => CacheGet(cache', K1, now) = Null
     /\ (~cache[K1].present /\ cache'[K1].present) =>
          (anySuccess' /\ \E r \in inflight : Settles(r))
     /\ Refresh =>
          /\ fetchCount' = fetchCount + 1
          /\ \E q \in inflight' : q.id = fetchCount' /\ q.force /\ q.at = now]_vars

\* refresh() has just invoked fetchFn although another request was loading and a
\* fetch had completed less than a second before
C10_Witness ==
  /\ lastOp = "refresh"
  /\ ~cache[K1].present
  /\ Cardinality(inflight) >= 2
  /\ \E q \in inflight : q.id = fetchCount /\ q.force /\ q.at = now
  /\ lastDoneAt # Null /\ now - lastDoneAt < RateLimit

\* the step is made by the consumer: a focus event or a call of refresh(),
\* invalidate() or the unmount
ConsumerStep == Focus \/ Refresh \/ Invalidate \/ Unmount

\* C11: when the only in-flight request of a mounted coordinator, its newest,
\* succeeds with v, the coordinator ends with data = v, isLoading = false and
\* retryCount = 0, lastFetchRef is set to a time of that request, and the store
\* holds v under the key with expiresAt equal to the write time plus ttl.
C11_SuccessEffects ==
  [][\A r \in inflight, v \in Values :
       (FetchResolves(r, v) /\ phase = "mounted" /\ inflight = {r} /\ r.id = fetchCount)
       => /\ data' = v /\ ~isLoading' /\ retryCount' = 0
          /\ r.at <= lastFetchRef' /\ lastFetchRef' <= now
          /\ cache'[K1] = [present |-> TRUE, data |-> v, timestamp |-> now,
                           expiresAt |-> now + options.ttl]]_vars

\* C12: when a request whose token was cancelled (by a newer request or by the
\* unmount) settles, error is not set, retryCount is not incremented and no
\* retry timer is scheduled.
C12_CancelNotFailure ==
  [][\A r \in inflight :
       (r.aborted /\ Settles(r))
       => (error' = error /\ retryCount' <= retryCount /\ timers' \subseteq timers)]_vars

\* the coordinator is in terminal failure: its retries are used up, the error is
\* set and nothing is loading
Exhausted ==
  /\ phase = "mounted" /\ options.retryOnError
  /\ error = ErrorMessage /\ ~isLoading /\ inflight = {}
  /\ retryCount >= options.maxRetries

\* C13: the rejection that uses up the retries leaves the coordinator Failed
\* (error set, not loading) without invoking fetchFn, and from then on no step
\* other than one made by the consumer invokes fetchFn or changes error or
\* isLoading.
C13_StaysFailed ==
  [][/\ \A r \in inflight :
          (FetchRejects(r) /\ phase = "mounted" /\ options.retryOnError
             /\ inflight = {r} /\ r.rc >= options.maxRetries)
          => (error' = ErrorMessage /\ ~isLoading' /\ fetchCount' = fetchCount)
     /\ (Exhausted /\ ~ConsumerStep)
          => (fetchCount' = fetchCount /\ error' = error /\ isLoading' = isLoading)]_vars

\* the store holds an unexpired entry for the key of the hook
Usable == cache[K1].present /\ now <= cache[K1].expiresAt

\* C15: a focus event invokes fetchFn only if refreshOnFocus is set and the store
\* has no usable entry for the key; with a usable entry it invokes no fetch and
\* changes no state of the coordinator.
C15_FocusRefresh ==
  [][Focus =>
       /\ fetchCount' > fetchCount => (options.refreshOnFocus /\ ~Usable)
       /\ Usable => (fetchCount' = fetchCount
                     /\ UNCHANGED <<data, isLoading, error, retryCount>>)]_vars

\* C17: invalidate() removes the entry of the key, leaves the coordinator Idle
\* (data = null, error = null, isLoading = false, retryCount = 0) and invokes
\* no fetch.
C17_InvalidateIdle ==
  [][Invalidate =>
       /\ ~cache'[K1].present
       /\ data' = Null /\ error' = NoError /\ ~isLoading' /\ retryCount' = 0
       /\ fetchCount' = fetchCount]_vars

IsSubstring(p, k) ==
  \E i \in 0..Len(k) : \E j \in i..Len(k) :
    SubSeq(k, 1, i) \o p \o SubSeq(k, j + 1, Len(k)) = k /\ j - i = Len(p)

\* C19: invalidate(p) removes exactly the entries whose key contains p and
\* leaves every other entry unchanged, invalidate() removes every entry, and
\* every argument has one of these two outcomes.
C19_InvalidateSemantics ==
  [][\A p \in Patterns :
       (lastOp' = "globalCache.invalidate" /\ StoreInvalidate(p)) =>
         /\ \A k \in Keys :
              cache'[k] = IF IsSubstring(p, k) THEN NoEntry ELSE cache[k]
         /\ p = <<>> => \A k \in Keys : ~cache'[k].present]_vars

\* an invalidation has removed the keys containing the pattern and kept the
\* entry of a key that does not contain it
C19_Witness ==
  /\ lastOp = "globalCache.invalidate"
  /\ ~cache[K1].present /\ ~cache[K2].present
  /\ written[K3].live /\ cache[K3].present /\ cache[K3].data = written[K3].v
  /\ cache[K3].timestamp = written[K3].at

\* C16: a store-level invalidation (of the key, of a pattern, of everything)
\* leaves every in-flight request and the whole state of the coordinator as
\* they are, and when the newest request of a mounted coordinator then
\* succeeds with v, v is written to the store under the key and to data.
C16_InvalidationKeepsFetch ==
  [][/\ \A p \in Patterns :
          (lastOp' = "globalCache.invalidate" /\ StoreInvalidate(p)) => UNCHANGED hookVars
     /\ \A r \in inflight, v \in Values :
          (lastOp' = "resolve" /\ phase = "mounted" /\ r.id = fetchCount
             /\ FetchResolves(r, v))
          => /\ data' = v
             /\ cache'[K1] = [present |-> TRUE, data |-> v, timestamp |-> now,
                              expiresAt |-> now + options.ttl]]_vars

\* the store was invalidated while a request made after an earlier success is
\* in flight: the entry is gone, the request is still in flight, not cancelled
C16_Witness ==
  /\ lastOp = "globalCache.invalidate"
  /\ phase = "mounted" /\ anySuccess /\ isLoading
  /\ ~cache[K1].present
  /\ \E r \in inflight : r.id = fetchCount /\ ~r.aborted

\* C20: refresh() and invalidate() of the coordinator bound to K1 remove at
\* most the entry stored under K1; the entry of every other key is unchanged,
\* whatever the relation between the key strings.
C20_Frame ==
  [][(Refresh \/ Invalidate) => \A k \in Keys \ {K1} : cache'[k] = cache[k]]_vars

\* a focus event makes the callback of useFocusEffect call fetchData(false)
\* while the entry of an earlier successful fetch is stored but expired and no
\* request is in flight
RequestAfterExpiry ==
  /\ Focus /\ options.refreshOnFocus
  /\ anySuccess /\ inflight = {}
  /\ cache[K1].present /\ cache[K1].expiresAt < now

\* when the newest request of a mounted coordinator succeeds with v, the store
\* gets a new entry for the key that expires ttl after the write
StoresFreshEntry ==
  \A r \in inflight, v \in Values :
    (lastOp' = "resolve" /\ phase = "mounted" /\ r.id = fetchCount /\ FetchResolves(r, v))
    => cache'[K1] = [present |-> TRUE, data |-> v, timestamp |-> now,
                     expiresAt |-> now + options.ttl]

\* C18 as stated: after a successful fetch, a request(false) issued once the
\* ttl of the entry has elapsed, with no request in flight, invokes fetchFn
\* again, and its success stores a new entry with a fresh expiry.
C18_ExpiryRefetch ==
  [][/\ RequestAfterExpiry => fetchCount' = fetchCount + 1
     /\ StoresFreshEntry]_vars

\* C18 amended: such a request invokes fetchFn again when at least the
\* rate-limit interval has passed since the last successful fetch started, and
\* is suppressed within that interval; a success stores a new entry with a
\* fresh expiry.
C18_ExpiryRefetchRateLimited ==
  [][/\ RequestAfterExpiry =>
          fetchCount' = (IF now - lastFetchRef >= RateLimit
                         THEN fetchCount + 1 ELSE fetchCount)
     /\ StoresFreshEntry]_vars

\* a focus event after the expiry of the entry has started a second,
\* non-forced request
C18_Witness ==
  /\ lastOp = "focus" /\ anySuccess /\ lastFetchRef > 0
  /\ now - lastFetchRef >= RateLimit
  /\ ~cache[K1].present
  /\ \E r \in inflight : r.id = fetchCount /\ r.at = now /\ ~r.force

\* the status a consumer derives from the exposed state
Status(d, l, e) ==
  IF l THEN "Loading"
  ELSE IF e # NoError THEN "Failed"
  ELSE IF d # Null THEN "Succeeded"
  ELSE "Idle"

\* the status changes of the state machine, apart from the return to Idle
AllowedChanges ==
  {<<"Idle", "Loading">>, <<"Loading", "Succeeded">>, <<"Loading", "Failed">>,
   <<"Succeeded", "Loading">>, <<"Failed", "Loading">>}

\* C21: the status derived from data, isLoading and error changes only along
\* Idle->Loading, Loading->Succeeded, Loading->Failed, Succeeded->Loading and
\* Failed->Loading, or to Idle in a step of invalidate(); Loading never changes
\* to Idle while a request is still in flight.
C21_StateMachine ==
  [][LET old == Status(data, isLoading, error)
         new == Status(data', isLoading', error')
     IN /\ \/ new = old
           \/ <<old, new>> \in AllowedChanges
           \/ new = "Idle" /\ Invalidate
        /\ ~(old = "Loading" /\ new = "Idle" /\ inflight' # {})]_vars

\* C22: every entry present in the store has expiresAt >= timestamp.
C22_ExpiryNotBeforeStore ==
  \A k \in Keys : cache[k].present => cache[k].expiresAt >= cache[k].timestamp

\* C23: while a request of the mounted coordinator is unresolved, isLoading
\* is true.
C23_LoadingAccurate ==
  (phase = "mounted" /\ inflight # {}) => isLoading

\* C24: once the consumer has unmounted, no step invokes fetchFn.
C24_NoFetchAfterDetach ==
  [][phase = "unmounted" => fetchCount' = fetchCount]_vars

\* C25: with retryOnError = false the step in which a fetch fails invokes no
\* fetchFn, and afterwards only a step made by the consumer does.
C25_NoAutomaticRefetch ==
  [][/\ \A r \in inflight :
          (~options.retryOnError /\ phase = "mounted" /\ FetchRejects(r))
          => fetchCount' = fetchCount
     /\ (~options.retryOnError /\ phase = "mounted" /\ error = ErrorMessage
           /\ ~isLoading /\ ~ConsumerStep)
          => fetchCount' = fetchCount]_vars

\* C26: at most one meal action is in flight, no action's API call starts
\* while actionLoading is set (a duplicate confirmed from an alert included),
\* and actionLoading is null after every action completes.
C26_ActionExclusion ==
  [][/\ Cardinality(history'.calls) <= 1
     /\ history'.started > history.started => history.actionLoading = "null"
     /\ (history'.calls # history.calls /\ history'.calls \subseteq history.calls)
          => history'.actionLoading = "null"]_vars

\* C27: waitForConnection resolves true at once when the hook reports a
\* connection; a call made while disconnected resolves true at the first poll
\* at which the hook reports a connection, and resolves false at a poll only
\* when its timeout has elapsed without one; no call resolves twice.
C27_WaitForConnection ==
  [][/\ \A timeout \in 1..MaxTimeout :
          (lastOp' = "wait" /\ network.isConnected /\ WaitForConnection(timeout))
          => \E d \in network'.resolved : d.id = network'.calls /\ d.result
     /\ \A w \in network.waits :
          (lastOp' = "poll" /\ Poll(w))
          => /\ network.isConnected
                  => \E d \in network'.resolved : d.id = w.id /\ d.result
             /\ (\E d \in network'.resolved : d.id = w.id /\ ~d.result)
                  => (~network.isConnected /\ w.polls + 1 > w.timeout)
     /\ \A d \in network'.resolved, e \in network'.resolved : d.id = e.id => d = e]_vars

\* C28: after the unmount no listener of the hook is registered, neither the
\* window online/offline handlers nor the NetInfo subscription.
C28_NoListenerAfterUnmount ==
  network.mounted = "unmounted" => (~network.webListeners /\ ~network.subscribed)

\* C29: when the analysis of the same image keeps failing, the retry prompt is
\* offered for the first two failures and the next consecutive failure is
\* reported through handleError, whichever entry point started the analysis.
C29_RetryEscalation ==
  [][\A a \in camera.analyzing :
       (lastOp' = "analysisfails" /\ AnalysisFails(a))
       => camera'.outcome = IF camera.failures < RetryPrompts
                            THEN "alert" ELSE "handleError"]_vars

\* C30: over any sequence of load-start, load, error and manual-retry events
\* the fallback source is switched to at most once per component instance;
\* the error that triggers the switch does not call onError; every error after
\* the switch leaves the component in the error state and calls onError.
C30_FallbackOnce ==
  [][/\ image'.switches <= 1
     /\ lastOp' # "image.error" => image'.switches = image.switches
     /\ (lastOp' = "image.error" /\ image'.switches > image.switches)
          => /\ image'.onErrorCalls = image.onErrorCalls
             /\ image'.currentSource = image.fallbackSource
     /\ (lastOp' = "image.error" /\ image.switches >= 1)
          => /\ image'.hasError /\ ~image'.isLoading
             /\ image'.onErrorCalls = image.onErrorCalls + 1]_vars

\* the original source fails again after a switch and a manual retry
C30_Witness ==
  /\ lastOp = "image.error"
  /\ image.switches = 1 /\ image.retryCount >= 2
  /\ image.currentSource = "source"
  /\ image.hasError /\ image.onErrorCalls >= 1

====
